---------------------------- MODULE Spec2Model ----------------------------
(***************************************************************************)
(* Model of the Godot 3 -> 4 GDScript migration scripts:                   *)
(*   scripts/migrate_godot3_to_4.py  (GodotMigrator)                       *)
(*   scripts/fix_connect_calls.py    (fix_connect_calls, main)             *)
(*                                                                         *)
(* File contents are TLA+ strings and every rule works on characters, as   *)
(* the Python code does: `in` is substring search, str.replace and re.sub  *)
(* scan left to right and replace non-overlapping matches, and each        *)
(* regular expression of the scripts is a matcher written out by hand.     *)
(*                                                                         *)
(* Two characters of the change descriptions are not ASCII in the source   *)
(* and are written in ASCII here: the warning sign that starts every       *)
(* advisory description is "(!)", the arrow is "->".                        *)
(***************************************************************************)
EXTENDS Integers, Sequences, FiniteSets, TLC

VARIABLES
    script,         \* which script was started: "migrate" or "fix_connect"
    dry_run,        \* the --dry-run flag of migrate_godot3_to_4.py
    disk,           \* path -> stored content of every .gd file
    disk0,          \* the contents when the current run started
    pc,             \* "start", "loop" or "done"
    gd_files,       \* the list rglob returned, in the order it returned it
    todo,           \* the part of sorted(gd_files) the loop has not reached
    files_changed,  \* files_changed (files_modified in fix_connect_calls.py)
    total_changes,  \* total_changes
    results,        \* per processed file: what migrate_file / fix_connect_calls returned
    report,         \* the per-file blocks written to standard output
    run             \* 1 in the first run of the script, 2 in the second

vars == <<script, dry_run, disk, disk0, pc, gd_files, todo, files_changed,
          total_changes, results, report, run>>

----------------------------------------------------------------------------
(* Characters and Python's string primitives                               *)

\* s[i] (1-based), "" past either end
At(s, i) == IF i >= 1 /\ i <= Len(s) THEN SubSeq(s, i, i) ELSE ""

\* s[i:] (1-based)
From(s, i) == SubSeq(s, i, Len(s))

\* s.startswith(p, i-1)
StartsAt(s, p, i) == i + Len(p) - 1 <= Len(s) /\ SubSeq(s, i, i + Len(p) - 1) = p

\* s.startswith(p)
StartsWith(s, p) == StartsAt(s, p, 1)

\* the least index of a set of indexes, 0 for the empty set
First(S) == IF S = {} THEN 0 ELSE CHOOSE j \in S : \A k \in S : j <= k

\* the characters \w matches
WordChars ==
    {"a","b","c","d","e","f","g","h","i","j","k","l","m","n","o","p","q","r",
     "s","t","u","v","w","x","y","z",
     "A","B","C","D","E","F","G","H","I","J","K","L","M","N","O","P","Q","R",
     "S","T","U","V","W","X","Y","Z",
     "0","1","2","3","4","5","6","7","8","9","_"}

\* the characters \d matches
DigitChars == {"0","1","2","3","4","5","6","7","8","9"}

\* the characters \s matches
SpaceChars == {" ", "\t", "\n", "\r", "\f"}

IsWord(c) == c \in WordChars
IsDigit(c) == c \in DigitChars
IsSpace(c) == c \in SpaceChars

\* first index >= i whose character is not a word character (greedy \w* from i)
RECURSIVE SkipWord(_, _)
SkipWord(s, i) == IF IsWord(At(s, i)) THEN SkipWord(s, i + 1) ELSE i

\* first index >= i whose character is not whitespace (greedy \s* from i)
RECURSIVE SkipSpace(_, _)
SkipSpace(s, i) == IF IsSpace(At(s, i)) THEN SkipSpace(s, i + 1) ELSE i

\* first index >= i holding character c, or Len(s) + 1 (greedy [^c]* from i)
SkipTo(s, c, i) ==
    LET j == First({k \in i..Len(s) : At(s, k) = c})
    IN  IF j = 0 THEN Len(s) + 1 ELSE j

\* \b at the boundary before index i
WordBoundary(s, i) == IsWord(At(s, i - 1)) # IsWord(At(s, i))

\* first index >= i where p starts, or 0: s.find(p, i-1) + 1
Find(s, p, i) == First({j \in i..(Len(s) - Len(p) + 1) : StartsAt(s, p, j)})

\* p in s
Contains(s, p) == Find(s, p, 1) # 0

\* s.replace(old, new) from index i on, old not empty
RECURSIVE ReplaceFrom(_, _, _, _)
ReplaceFrom(s, old, new, i) ==
    LET j == Find(s, old, i)
    IN  IF j = 0 THEN From(s, i)
        ELSE SubSeq(s, i, j - 1) \o new \o ReplaceFrom(s, old, new, j + Len(old))

Replace(s, old, new) == ReplaceFrom(s, old, new, 1)

\* s.strip()
RECURSIVE RStrip(_)
RStrip(s) == IF s # "" /\ IsSpace(At(s, Len(s))) THEN RStrip(SubSeq(s, 1, Len(s) - 1)) ELSE s

Strip(s) == RStrip(From(s, SkipSpace(s, 1)))

----------------------------------------------------------------------------
(* migrate_godot3_to_4.py: the regular expressions of migrate_file         *)

\* An optional text is a sequence of at most one string: None is Python's
\* None, Some(c) the string c.
None == <<>>
Some(c) == <<c>>

\* the prefix of every advisory description
Warning == "(!)"

\* r'\b(\w+)\.instance\(' tried at index i: the index after the match, or 0
InstanceMatch(s, i) ==
    LET e == SkipWord(s, i)
    IN  IF WordBoundary(s, i) /\ e > i /\ StartsAt(s, ".instance(", e)
        THEN e + Len(".instance(") ELSE 0

\* where the first match at or after index i starts, or 0
InstanceNext(s, i) == First({j \in i..Len(s) : InstanceMatch(s, j) # 0})

\* re.search(r'\b(\w+)\.instance\(', s)
InstanceSearch(s) == InstanceNext(s, 1) # 0

\* re.sub(r'\b(\w+)\.instance\(', r'\1.instantiate(', s), from index i on
RECURSIVE InstanceSubFrom(_, _)
InstanceSubFrom(s, i) ==
    LET j == InstanceNext(s, i)
        e == InstanceMatch(s, j)
    IN  IF j = 0 THEN From(s, i)
        ELSE SubSeq(s, i, e - Len(".instance(") - 1) \o ".instantiate("
             \o InstanceSubFrom(s, e)

InstanceSub(s) == InstanceSubFrom(s, 1)

\* last index in lo..hi holding a line feed, or 0
RECURSIVE LastNewline(_, _, _)
LastNewline(s, lo, hi) ==
    IF hi < lo THEN 0
    ELSE IF At(s, hi) = "\n" THEN hi
    ELSE LastNewline(s, lo, hi - 1)

\* r'\s*randomize\(\)\s*\n' tried at index i: the index after the match, or 0.
\* The first \s* is greedy and takes every whitespace character, line feeds
\* included; the second one gives back down to the last line feed it took.
RandomizeMatch(s, i) ==
    LET j == SkipSpace(s, i)
        k == j + Len("randomize()")
        n == LastNewline(s, k, SkipSpace(s, k) - 1)
    IN  IF StartsAt(s, "randomize()", j) /\ n # 0 THEN n + 1 ELSE 0

\* where the first match at or after index i starts, or 0
RandomizeNext(s, i) == First({j \in i..Len(s) : RandomizeMatch(s, j) # 0})

\* re.search(r'\s*randomize\(\)\s*\n', s)
RandomizeSearch(s) == RandomizeNext(s, 1) # 0

\* re.sub(r'\s*randomize\(\)\s*\n', '', s), from index i on
RECURSIVE RandomizeSubFrom(_, _)
RandomizeSubFrom(s, i) ==
    LET j == RandomizeNext(s, i)
    IN  IF j = 0 THEN From(s, i)
        ELSE SubSeq(s, i, j - 1) \o RandomizeSubFrom(s, RandomizeMatch(s, j))

RandomizeSub(s) == RandomizeSubFrom(s, 1)

\* r'export\((\w+)\)\s+var\s+(\w+)' tried at index i:
\* <<index after the match, the text of group 2>>, or <<0, "">>
ExportMatch(s, i) ==
    LET a == i + Len("export(")
        b == SkipWord(s, a)
        d == SkipSpace(s, b + 1)
        e == d + Len("var")
        f == SkipSpace(s, e)
        g == SkipWord(s, f)
    IN  IF /\ StartsAt(s, "export(", i)
           /\ b > a /\ At(s, b) = ")"
           /\ d > b + 1 /\ StartsAt(s, "var", d)
           /\ f > e /\ g > f
        THEN <<g, SubSeq(s, f, g - 1)>> ELSE <<0, "">>

\* where the first match at or after index i starts, or 0
ExportNext(s, i) == First({j \in i..Len(s) : ExportMatch(s, j)[1] # 0})

\* len(re.findall(r'export\((\w+)\)\s+var\s+(\w+)', s)), from index i on
RECURSIVE ExportCountFrom(_, _)
ExportCountFrom(s, i) ==
    LET j == ExportNext(s, i)
    IN  IF j = 0 THEN 0 ELSE 1 + ExportCountFrom(s, ExportMatch(s, j)[1])

ExportCount(s) == ExportCountFrom(s, 1)

\* re.sub(r'export\((\w+)\)\s+var\s+(\w+)', r'@export var \2', s), from index i on
RECURSIVE ExportSubFrom(_, _)
ExportSubFrom(s, i) ==
    LET j == ExportNext(s, i)
        m == ExportMatch(s, j)
    IN  IF j = 0 THEN From(s, i)
        ELSE SubSeq(s, i, j - 1) \o "@export var " \o m[2] \o ExportSubFrom(s, m[1])

ExportSub(s) == ExportSubFrom(s, 1)

\* re.search(r'export\(\w+,\s*\d+', s)
ExportRangeSearch(s) ==
    \E i \in 1..Len(s) :
        LET a == i + Len("export(")
            b == SkipWord(s, a)
            c == SkipSpace(s, b + 1)
        IN  /\ StartsAt(s, "export(", i)
            /\ b > a /\ At(s, b) = ","
            /\ IsDigit(At(s, c))

\* r'\bold\b' tried at index i
NodeMatch(s, old, i) ==
    StartsAt(s, old, i) /\ WordBoundary(s, i) /\ WordBoundary(s, i + Len(old))

\* where the first match at or after index i starts, or 0
NodeNext(s, old, i) == First({j \in i..Len(s) : NodeMatch(s, old, j)})

\* re.search(r'\b' + old + r'\b', s)
NodeSearch(s, old) == NodeNext(s, old, 1) # 0

\* re.sub(r'\b' + old + r'\b', new, s), from index i on
RECURSIVE NodeSubFrom(_, _, _, _)
NodeSubFrom(s, old, new, i) ==
    LET j == NodeNext(s, old, i)
    IN  IF j = 0 THEN From(s, i)
        ELSE SubSeq(s, i, j - 1) \o new \o NodeSubFrom(s, old, new, j + Len(old))

NodeSub(s, old, new) == NodeSubFrom(s, old, new, 1)

\* re.search(r'move_and_slide\([^)]+\)', s)
MoveAndSlideSearch(s) ==
    \E i \in 1..Len(s) :
        LET a == i + Len("move_and_slide(")
            b == SkipTo(s, ")", a)
        IN  StartsAt(s, "move_and_slide(", i) /\ b > a /\ b <= Len(s)

----------------------------------------------------------------------------
(* migrate_godot3_to_4.py: GodotMigrator.migrate_file                      *)
(*                                                                         *)
(* A rule takes and gives the two locals it works on, as the record        *)
(* [content |-> content, changes |-> local_changes].                       *)

\* The descriptions the rules append to local_changes.
FileApiNote == "(!)  MANUAL: File API needs migration to FileAccess"
InstanceNote == "instance() -> instantiate()"
RandRangeNote == "rand_range() -> randf_range()"
RandomizeNote == "Removed randomize() call (automatic in Godot 4)"
Deg2RadNote == "deg2rad() -> deg_to_rad()"
Rad2DegNote == "rad2deg() -> rad_to_deg()"
ButtonLeftNote == "BUTTON_LEFT -> MOUSE_BUTTON_LEFT"
ButtonRightNote == "BUTTON_RIGHT -> MOUSE_BUTTON_RIGHT"
ButtonMiddleNote == "BUTTON_MIDDLE -> MOUSE_BUTTON_MIDDLE"
ExportNote(n) == "export(Type) -> @export (" \o ToString(n) \o " occurrences)"
ExportRangeNote == "(!)  MANUAL: export() with range needs @export_range()"
ExportNodePathNote == "export(NodePath) -> @export"
ExportPackedSceneNote == "export(PackedScene) -> @export"
KinematicBody2DNote == "KinematicBody2D -> CharacterBody2D"
KinematicBodyNote == "KinematicBody -> CharacterBody3D"
SpatialNote == "Spatial -> Node3D"
MoveAndSlideNote == "(!)  MANUAL: move_and_slide() API changed - now uses velocity property"
SuperReadyNote == "(!)  CONSIDER: Add super._ready() call if extending custom class"
SuperProcessNote == "(!)  CONSIDER: Add super._process() call if extending custom class"
TweenNote == "(!)  MANUAL: Tween is no longer a node - use create_tween()"
GetRootNote == "get_tree().get_root() -> get_tree().root"
ScreenSizeNote == "OS.get_screen_size() -> DisplayServer.screen_get_size()"
YieldNote == "(!)  MANUAL: yield() -> await (syntax change required)"
WeakRefNote == "(!)  MANUAL: WeakRef.get_ref() -> WeakRef.get()"
Var2StrNote == "var2str() -> var_to_str()"
Str2VarNote == "str2var() -> str_to_var()"
ExtentsNote == "(!)  MANUAL: .extents -> .size (and multiply by 2 for collision shapes)"

\* Flag, were an advisory rule to mark the text it flags
FlagAndEdit(st, cond, note) ==
    IF cond THEN [content |-> "# TODO\n" \o st.content, changes |-> Append(st.changes, note)]
    ELSE st

\* `if cond: local_changes.append(note)`
Flag(st, cond, note) ==
    IF cond THEN [st EXCEPT !.changes = Append(@, note)] ELSE st

\* `if old in content: content = content.replace(old, new); local_changes.append(note)`
Literal(st, old, new, note) ==
    IF Contains(st.content, old)
    THEN [content |-> Replace(st.content, old, new), changes |-> Append(st.changes, note)]
    ELSE st

\* 1. File API
FileApiRule(st) ==
    Flag(st, Contains(st.content, "File.new()") \/ Contains(st.content, "var file = File"),
         FileApiNote)

\* 2. instance() -> instantiate()
InstanceRule(st) ==
    IF InstanceSearch(st.content)
    THEN [content |-> InstanceSub(st.content), changes |-> Append(st.changes, InstanceNote)]
    ELSE st

\* 3. rand_range() -> randf_range()
RandRangeRule(st) == Literal(st, "rand_range(", "randf_range(", RandRangeNote)

\* 4. Remove randomize() calls
RandomizeRule(st) ==
    IF RandomizeSearch(st.content)
    THEN [content |-> RandomizeSub(st.content), changes |-> Append(st.changes, RandomizeNote)]
    ELSE st

\* 5. deg2rad() -> deg_to_rad()
Deg2RadRule(st) == Literal(st, "deg2rad(", "deg_to_rad(", Deg2RadNote)

\* 6. rad2deg() -> rad_to_deg()
Rad2DegRule(st) == Literal(st, "rad2deg(", "rad_to_deg(", Rad2DegNote)

\* 7. Button constants
ButtonLeftRule(st) == Literal(st, "BUTTON_LEFT", "MOUSE_BUTTON_LEFT", ButtonLeftNote)
ButtonRightRule(st) == Literal(st, "BUTTON_RIGHT", "MOUSE_BUTTON_RIGHT", ButtonRightNote)
ButtonMiddleRule(st) == Literal(st, "BUTTON_MIDDLE", "MOUSE_BUTTON_MIDDLE", ButtonMiddleNote)

\* 8. export syntax, simple cases
ExportRule(st) ==
    LET matches == ExportCount(st.content)
    IN  IF matches > 0
        THEN [content |-> ExportSub(st.content),
              changes |-> Append(st.changes, ExportNote(matches))]
        ELSE st

\* export(int, range, ...)
ExportRangeRule(st) == Flag(st, ExportRangeSearch(st.content), ExportRangeNote)

\* 9. Export flags
ExportNodePathRule(st) == Literal(st, "export(NodePath)", "@export", ExportNodePathNote)
ExportPackedSceneRule(st) ==
    Literal(st, "export(PackedScene)", "@export", ExportPackedSceneNote)

\* 10. Node type renames: one turn of the loop over node_renames
NodeRename(st, old, new, note) ==
    IF Contains(st.content, old) /\ NodeSearch(st.content, old)
    THEN [content |-> NodeSub(st.content, old, new), changes |-> Append(st.changes, note)]
    ELSE st

KinematicBody2DRule(st) ==
    NodeRename(st, "KinematicBody2D", "CharacterBody2D", KinematicBody2DNote)
KinematicBodyRule(st) == NodeRename(st, "KinematicBody", "CharacterBody3D", KinematicBodyNote)
SpatialRule(st) == NodeRename(st, "Spatial", "Node3D", SpatialNote)

\* 11. move_and_slide() changes
MoveAndSlideRule(st) == Flag(st, MoveAndSlideSearch(st.content), MoveAndSlideNote)

\* 13. Flag super() calls needed
SuperReadyRule(st) ==
    Flag(st, Contains(st.content, "func _ready(") /\ ~Contains(st.content, "super._ready()"),
         SuperReadyNote)
SuperProcessRule(st) ==
    Flag(st, Contains(st.content, "func _process(")
                 /\ ~Contains(st.content, "super._process("),
         SuperProcessNote)

\* 14. Tween changes
TweenRule(st) ==
    Flag(st, Contains(st.content, "Tween.new()") \/ Contains(st.content, "$Tween"), TweenNote)

\* 15. get_tree().get_root() -> get_tree().root
GetRootRule(st) == Literal(st, "get_tree().get_root()", "get_tree().root", GetRootNote)

\* 16. OS.get_screen_size() -> DisplayServer.screen_get_size()
ScreenSizeRule(st) ==
    Literal(st, "OS.get_screen_size(", "DisplayServer.screen_get_size(", ScreenSizeNote)

\* 17. yield() -> await
YieldRule(st) == Flag(st, Contains(st.content, "yield("), YieldNote)

\* 18. weakref()
WeakRefRule(st) == Flag(st, Contains(st.content, "weakref("), WeakRefNote)

\* 20. Global scope changes
Var2StrRule(st) == Literal(st, "var2str(", "var_to_str(", Var2StrNote)
Str2VarRule(st) == Literal(st, "str2var(", "str_to_var(", Str2VarNote)

\* 21. Physics/Collision changes
ExtentsRule(st) == Flag(st, Contains(st.content, ".extents"), ExtentsNote)


\* the rules of lines 27-69 one after the other, each on what the rule before
\* it left, from the records of S on (the last rule is written first)
Rules1To7(S) ==
    {ButtonMiddleRule(st) : st \in
     {ButtonRightRule(st) : st \in
      {ButtonLeftRule(st) : st \in
       {Rad2DegRule(st) : st \in
        {Deg2RadRule(st) : st \in
         {RandomizeRule(st) : st \in
          {RandRangeRule(st) : st \in
           {InstanceRule(st) : st \in
            {FileApiRule(st) : st \in
             S}}}}}}}}}

\* the rules of lines 71-125, likewise
Rules8To14(S) ==
    {TweenRule(st) : st \in
     {SuperProcessRule(st) : st \in
      {SuperReadyRule(st) : st \in
       {MoveAndSlideRule(st) : st \in
        {SpatialRule(st) : st \in
         {KinematicBodyRule(st) : st \in
          {KinematicBody2DRule(st) : st \in
           {ExportPackedSceneRule(st) : st \in
            {ExportNodePathRule(st) : st \in
             {ExportRangeRule(st) : st \in
              {ExportRule(st) : st \in
               S}}}}}}}}}}}

\* the rules of lines 127-161, likewise
Rules15To21(S) ==
    {ExtentsRule(st) : st \in
     {Str2VarRule(st) : st \in
      {Var2StrRule(st) : st \in
       {WeakRefRule(st) : st \in
        {YieldRule(st) : st \in
         {ScreenSizeRule(st) : st \in
          {GetRootRule(st) : st \in
           S}}}}}}}

\* content and local_changes after the last rule
AllRules(original_content) ==
    CHOOSE st \in Rules15To21(Rules8To14(Rules1To7(
        {[content |-> original_content, changes |-> <<>>]}))) : TRUE

\* Return, without the comparison of line 168
ReturnAlways(original_content, st) ==
    [content |-> Some(st.content), changes |-> st.changes]

\* the return statement of migrate_file
Return(original_content, st) ==
    [content |-> IF st.content # original_content THEN Some(st.content) ELSE None,
     changes |-> st.changes]

\* migrate_file on a file holding original_content:
\* [content |-> the new content or None, changes |-> local_changes]
migrate_file(original_content) == Return(original_content, AllRules(original_content))

----------------------------------------------------------------------------
(* fix_connect_calls.py: fix_connect_calls                                 *)

\* "no match" of ConnectMatch
NoMatch == [end |-> 0, signal_name |-> "", object_name |-> "", method_name |-> "",
            params |-> ""]

\* the optional group (\s*,\s*\[[^\]]*\])? tried at index i: the index after it, or 0
ParamsMatch(s, i) ==
    LET a == SkipSpace(s, i)
        b == SkipSpace(s, a + 1)
        c == SkipTo(s, "]", b + 1)
    IN  IF At(s, a) = "," /\ At(s, b) = "[" /\ c <= Len(s) THEN c + 1 ELSE 0

\* r'\.connect\("([^"]+)",\s*(\w+),\s*"([^"]+)"(\s*,\s*\[[^\]]*\])?\)' tried at
\* index i: the index after the match and the four groups (group 4 is "" when
\* it did not take part), or NoMatch
ConnectMatch(s, i) ==
    LET a == i + Len(".connect(\"")         \* group 1 starts
        b == SkipTo(s, "\"", a)             \* its closing quote
        c == SkipSpace(s, b + 2)            \* group 2 starts
        d == SkipWord(s, c)                 \* the comma after it
        e == SkipSpace(s, d + 1)            \* the opening quote of group 3
        f == SkipTo(s, "\"", e + 1)         \* its closing quote
        g == ParamsMatch(s, f + 1)
        h == IF g # 0 /\ At(s, g) = ")" THEN g ELSE f + 1   \* the closing parenthesis
    IN  IF /\ StartsAt(s, ".connect(\"", i)
           /\ b > a /\ StartsAt(s, "\",", b)
           /\ d > c /\ At(s, d) = ","
           /\ At(s, e) = "\""
           /\ f > e + 1 /\ f <= Len(s)
           /\ At(s, h) = ")"
        THEN [end |-> h + 1,
              signal_name |-> SubSeq(s, a, b - 1),
              object_name |-> SubSeq(s, c, d - 1),
              method_name |-> SubSeq(s, e + 1, f - 1),
              params |-> SubSeq(s, f + 1, h - 1)]
        ELSE NoMatch

\* replacer, with the object and the method changing places
replacerSwapped(match) ==
    ".connect(\"" \o match.signal_name \o "\", Callable(\"" \o match.method_name
    \o "\", " \o match.object_name \o "))"

\* replacer(match)
replacer(match) ==
    IF match.params # ""
    THEN ".connect(\"" \o match.signal_name \o "\", Callable(" \o match.object_name
         \o ", \"" \o match.method_name \o "\").bind(" \o From(Strip(match.params), 2)
    ELSE ".connect(\"" \o match.signal_name \o "\", Callable(" \o match.object_name
         \o ", \"" \o match.method_name \o "\"))"

\* where the first match at or after index i starts, or 0
ConnectNextMatch(s, i) == First({j \in i..Len(s) : ConnectMatch(s, j).end # 0})

\* new_content of re.subn(pattern, replacer, content), from index i on
RECURSIVE ConnectSubFrom(_, _)
ConnectSubFrom(s, i) ==
    LET j == ConnectNextMatch(s, i)
        m == ConnectMatch(s, j)
    IN  IF j = 0 THEN From(s, i)
        ELSE SubSeq(s, i, j - 1) \o replacer(m) \o ConnectSubFrom(s, m.end)

\* count of re.subn(pattern, replacer, content), from index i on
RECURSIVE ConnectCountFrom(_, _)
ConnectCountFrom(s, i) ==
    LET j == ConnectNextMatch(s, i)
    IN  IF j = 0 THEN 0 ELSE 1 + ConnectCountFrom(s, ConnectMatch(s, j).end)

\* fix_connect_calls(content): [content |-> new_content, count |-> count]
fix_connect_calls(content) ==
    [content |-> ConnectSubFrom(content, 1), count |-> ConnectCountFrom(content, 1)]

----------------------------------------------------------------------------
(* Paths, and the inputs the model is run on                               *)

\* most files in the directory
MaxFiles == 2
\* most lines of a sample script kept to make the content of a file
MaxLines == 2

\* A path is the sequence of its parts, a part a number standing for a name;
\* numbers order the way the names do.
AllPaths == {<<1>>, <<1, 2>>, <<2>>}

\* p < q on paths: part by part, a proper prefix first
RECURSIVE PathLess(_, _)
PathLess(p, q) ==
    IF q = <<>> THEN FALSE
    ELSE IF p = <<>> THEN TRUE
    ELSE IF Head(p) # Head(q) THEN Head(p) < Head(q)
    ELSE PathLess(Tail(p), Tail(q))

\* xs, in order, with p put in its place
RECURSIVE Insert(_, _)
Insert(p, xs) ==
    IF xs = <<>> THEN <<p>>
    ELSE IF PathLess(p, Head(xs)) THEN <<p>> \o xs
    ELSE <<Head(xs)>> \o Insert(p, Tail(xs))

\* sorted, were the loop to take the files as rglob found them
sortedAsFound(xs) == xs

\* sorted(xs)
RECURSIVE sorted(_)
sorted(xs) == IF xs = <<>> THEN <<>> ELSE Insert(Head(xs), sorted(Tail(xs)))

\* every order rglob may return the files of the set S in
Orders(S) ==
    {xs \in [1..Cardinality(S) -> S] : \A p \in S : \E i \in DOMAIN xs : xs[i] = p}

\* the texts that keep at most n of the lines k, k+1, ... of a script, in order
RECURSIVE Picks(_, _, _)
Picks(lines, k, n) ==
    IF k > Len(lines) \/ n = 0 THEN {""}
    ELSE Picks(lines, k + 1, n) \cup {lines[k] \o t : t \in Picks(lines, k + 1, n - 1)}

\* a GDScript 3 script with every pattern of migrate_file in it
SampleScript ==
    <<"var x = 1\n",
      "\trandomize()\n",
      "rng.randomize()\n",
      "get_tree().get_root().add_child(s.instance())\n",
      "rand_range(deg2rad(a), rad2deg(b))\n",
      "BUTTON_LEFT | BUTTON_RIGHT | BUTTON_MIDDLE\n",
      "export(int) var hp\n",
      "export(NodePath) var p\n",
      "export(NodePath) onready var n\n",
      "export(PackedScene) onready var s\n",
      "export(int, 0, 9) var r\n",
      "var k: KinematicBody2D = KinematicBody.new() as Spatial\n",
      "var2str(str2var(OS.get_screen_size()))\n",
      "yield(weakref(o))\n",
      "func _ready(): var e = File.new().extents\n",
      "func _process(d): $Tween.start(move_and_slide(v))\n">>

\* whole files for the runs over several files
DirTexts ==
    {"var x = 1\n",
     "yield(t)\n",
     "s.instance()\n",
     "export(int) var hp\nexport(int) var mp\n",
     "BUTTON_LEFT\nyield(t)\n"}

\* a script with connect calls of every shape, and pieces of calls
ConnectScript ==
    <<"var (y) = 1\n",
      "a.connect(\"hit\", self, \"_on_hit\")\n",
      "b.connect(\"hit\", self, \"_on_hit\", [1, 2])\n",
      "c.connect(\"x\",o,\"m\" , [])",
      "d.connect(\"x\", o, \"m\", [a)\n",
      "e.connect(\"x\", o.p, \"m\")\n",
      "f.connect(",
      "\"x\", o, \"m\")",
      ".connect(\"y\", p, \"n\")">>

----------------------------------------------------------------------------
(* The two scripts                                                         *)

\* CountMechanical, without the test for the warning sign
CountEveryChange(changes) == Len(changes)

\* the `total_changes += 1` of one file: its descriptions without the warning sign
RECURSIVE CountMechanical(_)
CountMechanical(changes) ==
    IF changes = <<>> THEN 0
    ELSE (IF StartsWith(Head(changes), Warning) THEN 0 ELSE 1)
         + CountMechanical(Tail(changes))

\* `if changes:` and `if new_content is not None:` both taken
Updated(changes, new_content) == changes # <<>> /\ new_content # None

\* Written, without `if not dry_run:`
WrittenInDryRun(changes, new_content, dry) == changes # <<>> /\ new_content # None

\* ... and `if not dry_run:` taken: the file is written
Written(changes, new_content, dry) == Updated(changes, new_content) /\ ~dry

\* the script s is started, with flag dry, on a directory holding files
Start(s, dry, files) ==
    /\ script = s
    /\ dry_run = dry
    /\ disk = files
    /\ disk0 = files
    /\ pc = "start"
    /\ gd_files = <<>>
    /\ todo = <<>>
    /\ files_changed = 0
    /\ total_changes = 0
    /\ results = <<>>
    /\ report = <<>>
    /\ run = 1

\* migrate_godot3_to_4.py on a directory of up to MaxFiles small files
Init ==
    \E dry \in BOOLEAN, S \in SUBSET AllPaths :
        /\ Cardinality(S) <= MaxFiles
        /\ \E files \in [S -> DirTexts] : Start("migrate", dry, files)

\* migrate_godot3_to_4.py, in apply mode, on one file of up to MaxLines lines
InitRewrite ==
    \E text \in Picks(SampleScript, 1, MaxLines) :
        Start("migrate", FALSE, [p \in {<<1>>} |-> text])

\* fix_connect_calls.py on one file of up to MaxLines lines
InitConnect ==
    \E text \in Picks(ConnectScript, 1, MaxLines) :
        Start("fix_connect", FALSE, [p \in {<<1>>} |-> text])

\* gd_files = list(directory.rglob("*.gd")), the counters are set to 0 and
\* the loop over sorted(gd_files) is entered
Discover ==
    /\ pc = "start"
    /\ \E xs \in Orders(DOMAIN disk) :
        /\ gd_files' = xs
        /\ todo' = sorted(xs)
    /\ files_changed' = 0
    /\ total_changes' = 0
    /\ pc' = "loop"
    /\ UNCHANGED <<script, dry_run, disk, disk0, results, report, run>>

\* one turn of the loop of migrate_directory
MigrateNext ==
    /\ script = "migrate"
    /\ pc = "loop"
    /\ todo # <<>>
    /\ LET file_path == Head(todo)
           r == migrate_file(disk[file_path])
           new_content == r.content
           changes == r.changes
       IN  /\ results' = Append(results, [path |-> file_path, content |-> new_content,
                                          changes |-> changes])
           /\ total_changes' = total_changes + CountMechanical(changes)
           /\ files_changed' =
                  IF Updated(changes, new_content) THEN files_changed + 1
                  ELSE files_changed
           /\ disk' =
                  IF Written(changes, new_content, dry_run)
                  THEN [disk EXCEPT ![file_path] = new_content[1]] ELSE disk
           /\ report' =
                  IF changes = <<>> THEN report
                  ELSE Append(report,
                              [path |-> file_path, changes |-> changes,
                               mark |-> IF ~Updated(changes, new_content) THEN ""
                                        ELSE IF dry_run
                                        THEN "File would be updated (dry run)"
                                        ELSE "File updated"])
    /\ todo' = Tail(todo)
    /\ UNCHANGED <<script, dry_run, disk0, pc, gd_files, run>>

\* one turn of the loop of main() in fix_connect_calls.py
ConnectNext ==
    /\ script = "fix_connect"
    /\ pc = "loop"
    /\ todo # <<>>
    /\ LET file_path == Head(todo)
           r == fix_connect_calls(disk[file_path])
       IN  /\ results' = Append(results, [path |-> file_path, content |-> Some(r.content),
                                          changes |-> r.count])
           /\ IF r.count > 0
              THEN /\ disk' = [disk EXCEPT ![file_path] = r.content]
                   /\ report' = Append(report, [path |-> file_path, changes |-> r.count,
                                                mark |-> "connect() calls fixed"])
                   /\ total_changes' = total_changes + r.count
                   /\ files_changed' = files_changed + 1
              ELSE UNCHANGED <<disk, report, total_changes, files_changed>>
    /\ todo' = Tail(todo)
    /\ UNCHANGED <<script, dry_run, disk0, pc, gd_files, run>>

\* the loop is over and the summary is printed
Summary ==
    /\ pc = "loop"
    /\ todo = <<>>
    /\ pc' = "done"
    /\ UNCHANGED <<script, dry_run, disk, disk0, gd_files, todo, files_changed,
                   total_changes, results, report, run>>

\* the script is started a second time, on the directory as the first run left it
Restart ==
    /\ pc = "done"
    /\ run = 1
    /\ run' = 2
    /\ disk0' = disk
    /\ pc' = "start"
    /\ gd_files' = <<>>
    /\ todo' = <<>>
    /\ files_changed' = 0
    /\ total_changes' = 0
    /\ results' = <<>>
    /\ report' = <<>>
    /\ UNCHANGED <<script, dry_run, disk>>

Next == Discover \/ MigrateNext \/ Summary

NextRewrite == Discover \/ MigrateNext \/ Summary \/ Restart

NextConnect == Discover \/ ConnectNext \/ Summary

\* one run of migrate_godot3_to_4.py over a directory
Spec == Init /\ [][Next]_vars

\* two runs of migrate_godot3_to_4.py, in apply mode, over one file
SpecRewrite == InitRewrite /\ [][NextRewrite]_vars

\* one run of fix_connect_calls.py over one file
SpecConnect == InitConnect /\ [][NextConnect]_vars

----------------------------------------------------------------------------
(* What the properties below are stated with                               *)

\* what x is an element of
Range(xs) == {xs[i] : i \in DOMAIN xs}

\* the text the k-th file processed in this run held when the run started
Input(k) == disk0[results[k].path]

\* where the descriptions of mechanical rules are in a list of Change Records
Mechanical(changes) == {i \in DOMAIN changes : ~StartsWith(changes[i], Warning)}

\* every Change Record of the list is an advisory one, and there is one
AdvisoryOnly(changes) == changes # <<>> /\ Mechanical(changes) = {}

\* the sum of f[k] over the indices k of K
RECURSIVE Sum(_, _)
Sum(f, K) ==
    IF K = {} THEN 0
    ELSE LET k == CHOOSE x \in K : TRUE IN f[k] + Sum(f, K \ {k})

\* how many times p occurs in s
Occurrences(s, p) == Cardinality({j \in 1..Len(s) : StartsAt(s, p, j)})

\* the records of S after the mechanical rules alone, in the order of the catalog
MechanicalRules(S) ==
    {Str2VarRule(st) : st \in
     {Var2StrRule(st) : st \in
      {ScreenSizeRule(st) : st \in
       {GetRootRule(st) : st \in
        {SpatialRule(st) : st \in
         {KinematicBodyRule(st) : st \in
          {KinematicBody2DRule(st) : st \in
           {ExportPackedSceneRule(st) : st \in
            {ExportNodePathRule(st) : st \in
             {ExportRule(st) : st \in
              {ButtonMiddleRule(st) : st \in
               {ButtonRightRule(st) : st \in
                {ButtonLeftRule(st) : st \in
                 {Rad2DegRule(st) : st \in
                  {Deg2RadRule(st) : st \in
                   {RandomizeRule(st) : st \in
                    {RandRangeRule(st) : st \in
                     {InstanceRule(st) : st \in
                      S}}}}}}}}}}}}}}}}}}

\* the text after the mechanical rules alone (the last rule is written first)
MechanicalPass(text) ==
    (CHOOSE st \in MechanicalRules({[content |-> text, changes |-> <<>>]}) : TRUE).content

\* the Change Records of a rule run alone on text are those it leaves in
\* Rule(Fresh(text))
Fresh(text) == [content |-> text, changes |-> <<>>]

\* a rule with the descriptions notes fired in the pass that made changes
\* exactly as it did alone
Agrees(alone, changes, notes) ==
    LET inpass == {i \in DOMAIN changes : changes[i] \in notes}
    IN  IF alone = <<>> THEN inpass = {}
        ELSE \E i \in inpass : changes[i] = alone[1]

\* text without its lines that hold a randomize() call and whitespace only
RECURSIVE WithoutRandomizeLines(_)
WithoutRandomizeLines(text) ==
    LET e == Find(text, "\n", 1)
        line == IF e = 0 THEN text ELSE SubSeq(text, 1, e)
        rest == IF e = 0 THEN "" ELSE From(text, e + 1)
    IN  IF text = "" THEN ""
        ELSE (IF Strip(line) = "randomize()" THEN "" ELSE line)
             \o WithoutRandomizeLines(rest)

\* where the connect calls of s start
Calls(s) == {j \in 1..Len(s) : ConnectMatch(s, j).end # 0}

\* no connect call of s has the bracketed fourth argument
ThreeArguments(s) == \A j \in Calls(s) : ConnectMatch(s, j).params = ""

\* .connect("signal", Callable(object, "method"))
NestedForm(m) ==
    ".connect(\"" \o m.signal_name \o "\", Callable(" \o m.object_name \o ", \""
    \o m.method_name \o "\"))"

\* s with its calls that start in J in nested form, the last call first
RECURSIVE Nested(_, _)
Nested(s, J) ==
    LET j == CHOOSE x \in J : \A y \in J : y <= x
        m == ConnectMatch(s, j)
    IN  IF J = {} THEN s
        ELSE Nested(SubSeq(s, 1, j - 1) \o NestedForm(m) \o From(s, m.end), J \ {j})

\* the number of "(" of s less the number of ")"
Balance(s) ==
    Cardinality({i \in 1..Len(s) : At(s, i) = "("})
    - Cardinality({i \in 1..Len(s) : At(s, i) = ")"})

----------------------------------------------------------------------------
(* The properties                                                          *)

\* C1: a second run of the rule pass over what the first run wrote changes
\* nothing: every file of the second run has absent content.
C1_SecondPassChangesNothing ==
    run = 2 => \A k \in DOMAIN results : results[k].content = None

\* C2: the content migrate_file returns is absent exactly when the mechanical
\* rules leave the text as it was, and is otherwise the text after the
\* mechanical rules in catalog order; and it is present exactly when the
\* list of Change Records has a mechanical one.
C2_OutcomeClassification ==
    pc = "done" =>
        \A k \in DOMAIN results :
            LET r == results[k]
                after == MechanicalPass(Input(k))
            IN  /\ r.content = (IF after = Input(k) THEN None ELSE Some(after))
                /\ (r.content # None) <=> (Mechanical(r.changes) # {})

\* C2: a file that a mechanical rule rewrote and an advisory rule flagged
C2_Witness ==
    /\ pc = "done"
    /\ \E k \in DOMAIN results :
        /\ results[k].content # None
        /\ Mechanical(results[k].changes) # {}
        /\ Mechanical(results[k].changes) # DOMAIN results[k].changes

\* C3: in a dry run no file's stored content ever changes; otherwise a file
\* holds the content of its File Result when that is present and its
\* original content when it is absent or the file is still to be processed;
\* either way the report carries the Change Records and the marker of the mode.
C3_DryRunAndPersistence ==
    /\ \A p \in DOMAIN disk :
        LET K == {k \in DOMAIN results : results[k].path = p /\ results[k].content # None}
        IN  disk[p] = IF ~dry_run /\ K # {}
                      THEN results[CHOOSE k \in K : TRUE].content[1]
                      ELSE disk0[p]
    /\ \A k \in DOMAIN results :
        results[k].content # None =>
            \E i \in DOMAIN report :
                /\ report[i].path = results[k].path
                /\ report[i].changes = results[k].changes
                /\ report[i].mark = IF dry_run THEN "File would be updated (dry run)"
                                    ELSE "File updated"

\* C3: a dry run is over and a file it would have updated is as it was
C3_Witness ==
    /\ pc = "done"
    /\ dry_run
    /\ \E k \in DOMAIN results :
        /\ results[k].content # None
        /\ results[k].content[1] # disk[results[k].path]

\* C4: a file on which only advisory rules fire gets absent content with its
\* advisory Change Records, is not written even in apply mode, is reported
\* without the marker of an update and is not counted as modified.
C4_AdvisoryNeverWrites ==
    pc = "done" =>
        \A k \in DOMAIN results :
            AdvisoryOnly(results[k].changes) =>
                /\ results[k].content = None
                /\ disk[results[k].path] = Input(k)
                /\ \E i \in DOMAIN report :
                    /\ report[i].path = results[k].path
                    /\ report[i].changes = results[k].changes
                    /\ report[i].mark = ""
                /\ files_changed =
                       Cardinality({j \in DOMAIN results : Mechanical(results[j].changes) # {}})

\* C4: an apply run is over on a file that two or more advisory rules flagged
C4_Witness ==
    /\ pc = "done"
    /\ ~dry_run
    /\ \E k \in DOMAIN results :
        /\ AdvisoryOnly(results[k].changes)
        /\ Len(results[k].changes) >= 2

\* what C5 has one Change Record add to the total of a file of n characters
ClaimedCount(note, n) ==
    IF StartsWith(note, Warning) THEN 0
    ELSE IF \E c \in 1..n : note = ExportNote(c)
         THEN CHOOSE c \in 1..n : note = ExportNote(c)
         ELSE 1

\* C5, as the spec has it: at the end of a run the total of automatic changes
\* is the sum over the files of the occurrence count of the typed-export
\* rule when it fired plus one for each other mechanical firing.
C5_TotalSumsOccurrences ==
    pc = "done" =>
        total_changes =
            Sum([k \in DOMAIN results |->
                    Sum([i \in DOMAIN results[k].changes |->
                            ClaimedCount(results[k].changes[i], Len(Input(k)))],
                        DOMAIN results[k].changes)],
                DOMAIN results)

\* C5, amended: at every point of a run the total of automatic changes is the
\* number of mechanical Change Records of the files processed so far, the
\* record of the typed-export rule counting one whatever its occurrence count.
C5_TotalCountsRecords ==
    total_changes =
        Sum([k \in DOMAIN results |-> Cardinality(Mechanical(results[k].changes))],
            DOMAIN results)

\* C5: a run is over that rewrote two typed exports in one file
C5_Witness ==
    /\ pc = "done"
    /\ \E k \in DOMAIN results : ExportNote(2) \in Range(results[k].changes)

\* C6: in a full pass every mechanical rule fires exactly as it does alone on
\* the original text.
C6_NonInterference ==
    \A k \in DOMAIN results :
        LET t == Input(k)
            c == results[k].changes
        IN  /\ Agrees(InstanceRule(Fresh(t)).changes, c, {InstanceNote})
            /\ Agrees(RandRangeRule(Fresh(t)).changes, c, {RandRangeNote})
            /\ Agrees(RandomizeRule(Fresh(t)).changes, c, {RandomizeNote})
            /\ Agrees(Deg2RadRule(Fresh(t)).changes, c, {Deg2RadNote})
            /\ Agrees(Rad2DegRule(Fresh(t)).changes, c, {Rad2DegNote})
            /\ Agrees(ButtonLeftRule(Fresh(t)).changes, c, {ButtonLeftNote})
            /\ Agrees(ButtonRightRule(Fresh(t)).changes, c, {ButtonRightNote})
            /\ Agrees(ButtonMiddleRule(Fresh(t)).changes, c, {ButtonMiddleNote})
            /\ Agrees(ExportRule(Fresh(t)).changes, c, {ExportNote(n) : n \in 1..Len(t)})
            /\ Agrees(ExportNodePathRule(Fresh(t)).changes, c, {ExportNodePathNote})
            /\ Agrees(ExportPackedSceneRule(Fresh(t)).changes, c, {ExportPackedSceneNote})
            /\ Agrees(KinematicBody2DRule(Fresh(t)).changes, c, {KinematicBody2DNote})
            /\ Agrees(KinematicBodyRule(Fresh(t)).changes, c, {KinematicBodyNote})
            /\ Agrees(SpatialRule(Fresh(t)).changes, c, {SpatialNote})
            /\ Agrees(GetRootRule(Fresh(t)).changes, c, {GetRootNote})
            /\ Agrees(ScreenSizeRule(Fresh(t)).changes, c, {ScreenSizeNote})
            /\ Agrees(Var2StrRule(Fresh(t)).changes, c, {Var2StrNote})
            /\ Agrees(Str2VarRule(Fresh(t)).changes, c, {Str2VarNote})

\* C7: the randomize rule fires exactly when the text has a line that holds
\* a randomize() call and whitespace only, and when no other rule fires the
\* content returned is the text without those lines, every other line as it was.
C7_RandomizeDeletesItsLines ==
    \A k \in DOMAIN results :
        /\ (RandomizeNote \in Range(results[k].changes))
               <=> (WithoutRandomizeLines(Input(k)) # Input(k))
        /\ results[k].changes = <<RandomizeNote>> =>
               results[k].content = Some(WithoutRandomizeLines(Input(k)))

\* C8: the count returned is the number of connect calls of the text, each
\* rewritten call brings one Callable, the text before the first call and
\* after the last is as it was, and a text whose calls all lack the fourth
\* argument becomes the text with each call in nested form and nothing else
\* changed.
C8_CaptureRestructuring ==
    \A k \in DOMAIN results :
        LET in == Input(k)
            out == results[k].content[1]
            count == results[k].changes
            first == CHOOSE j \in Calls(in) : \A i \in Calls(in) : j <= i
            last == CHOOSE j \in Calls(in) : \A i \in Calls(in) : i <= j
            tail == From(in, ConnectMatch(in, last).end)
        IN  /\ count = Cardinality(Calls(in))
            /\ count = Occurrences(out, "Callable(") - Occurrences(in, "Callable(")
            /\ count = 0 => out = in
            /\ count > 0 =>
                /\ SubSeq(out, 1, first - 1) = SubSeq(in, 1, first - 1)
                /\ From(out, Len(out) - Len(tail) + 1) = tail
            /\ ThreeArguments(in) => out = Nested(in, Calls(in))

\* C8: a file with two connect calls of three arguments has been processed
C8_Witness ==
    /\ pc = "done"
    /\ \E k \in DOMAIN results :
        /\ results[k].changes = 2
        /\ ThreeArguments(Input(k))
        /\ disk[results[k].path] = results[k].content[1]

\* C9: at every point of a run the counter of modified files is the number
\* of files processed so far with present content and is at most the number
\* of files scanned; a file with absent content and no Change Record is not
\* written and not reported; and the files are processed in path order.
C9_FilesModifiedCounter ==
    /\ files_changed = Cardinality({k \in DOMAIN results : results[k].content # None})
    /\ files_changed <= Len(gd_files)
    /\ \A k \in DOMAIN results :
        (results[k].content = None /\ results[k].changes = <<>>) =>
            /\ disk[results[k].path] = Input(k)
            /\ \A i \in DOMAIN report : report[i].path # results[k].path
    /\ \A k \in DOMAIN results :
        /\ \A j \in DOMAIN results : j < k => PathLess(results[j].path, results[k].path)
        /\ \A i \in DOMAIN todo : PathLess(results[k].path, todo[i])

\* C9: a run is over on two files that rglob found in the other order, one
\* of them modified
C9_Witness ==
    /\ pc = "done"
    /\ Len(results) = 2
    /\ gd_files[1] = results[2].path
    /\ files_changed = 1

\* C10: the text fix_connect_calls returns has the same number of "(" less
\* the number of ")" as the text it was given.
C10_ParenthesisBalance ==
    \A k \in DOMAIN results : Balance(results[k].content[1]) = Balance(Input(k))

=============================================================================
